---- MODULE Spec2Model ----
(***************************************************************************)
(* Model of src/app.py: the battery-aware geyser scheduler                  *)
(* find_next_run_with_loads and the sizing helper recommend_battery.        *)
(*                                                                          *)
(* Numbers.  Python floats are modelled by exact arithmetic.                *)
(*  - Scheduler: Time is in seconds, hours are whole hours, power is in kW  *)
(*    and energy in kWh, all integers.  A fraction (state of charge,        *)
(*    reserve, efficiencies) is held as its percentage, the form the        *)
(*    sidebar produces it from (app.py lines 126-129): 50 stands for 0.50.  *)
(*    The input sets are chosen so that every product and quotient the code *)
(*    forms is a whole number, so no rounding is introduced by the model.   *)
(*  - recommend_battery: exact rationals [n, d] in lowest terms.            *)
(***************************************************************************)
EXTENDS Integers, Sequences, FiniteSets

VARIABLES
    args,            \* the arguments of find_next_run_with_loads
    pc,              \* position in find_next_run_with_loads
    future,          \* forecast rows with Time >= now_dt, re-indexed (1-based here)
    timeline,        \* list of dicts appended once per outer iteration
    battery_kwh,     \* outer ledger energy
    net_to_batt,     \* stored (>0) or -discharged (<0) of the last outer step
    i,               \* outer loop index (1-based: Python's i + 1)
    delta_hours,     \* duration of outer interval i
    batt_snapshot,   \* the probe's private copy of the battery energy
    hours_remaining, \* appliance hours the probe still has to simulate
    j,               \* probe loop index (1-based)
    can_run,         \* the probe's verdict so far
    ret,             \* the returned (start_time, details)
    probe_steps,     \* history: the steps of the probe in progress / last run
    probe_log,       \* history: verdict of the probe run at each candidate
    rec_args,        \* the arguments of recommend_battery
    rec              \* the dict recommend_battery returned (<<>> before the call)

sched_vars == <<args, pc, future, timeline, battery_kwh, net_to_batt, i, delta_hours,
                batt_snapshot, hours_remaining, j, can_run, ret, probe_steps, probe_log>>
rec_vars == <<rec_args, rec>>
vars == <<sched_vars, rec_vars>>

-----------------------------------------------------------------------------
(* Bounds of the model *)

\* longest forecast_df considered
MaxLen == 3

-----------------------------------------------------------------------------
(* Arithmetic helpers *)

Min(a, b) == IF a <= b THEN a ELSE b
Max(a, b) == IF a >= b THEN a ELSE b

\* x * f  and  x / f  for a fraction f held as a percentage
TimesFrac(x, f) == (x * f) \div 100
OverFrac(x, f) == (x * 100) \div f

\* exact rationals [n, d], d > 0, in lowest terms
RECURSIVE GCD(_, _)
GCD(a, b) == IF b = 0 THEN a ELSE GCD(b, a % b)
Abs(x) == IF x < 0 THEN -x ELSE x
Rat(n, d) ==
    LET sn == IF d < 0 THEN -n ELSE n
        sd == Abs(d)
        g == GCD(Abs(sn), sd)
    IN  [n |-> sn \div g, d |-> sd \div g]
RAdd(x, y) == Rat(x.n * y.d + y.n * x.d, x.d * y.d)
RSub(x, y) == Rat(x.n * y.d - y.n * x.d, x.d * y.d)
RMul(x, y) == Rat(x.n * y.n, x.d * y.d)
RDiv(x, y) == Rat(x.n * y.d, x.d * y.n)
RLeq(x, y) == x.n * y.d <= y.n * x.d
RMax(x, y) == IF RLeq(y, x) THEN x ELSE y

-----------------------------------------------------------------------------
(* Inputs of find_next_run_with_loads *)

\* Time (seconds) of the k-th sample of a forecast that starts at 0 and whose
\* consecutive samples are gaps[1], gaps[2], ... hours apart
RECURSIVE TimeAt(_, _)
TimeAt(gaps, k) == IF k = 1 THEN 0 ELSE TimeAt(gaps, k - 1) + gaps[k - 1] * 3600

\* every forecast_df of n rows with the given powers and gaps
ForecastsOfLen(n, Powers, Gaps) ==
    { [k \in 1..n |-> [Time |-> TimeAt(gs, k), Power_kW |-> ps[k]]] :
        ps \in [1..n -> Powers], gs \in [1..(n - 1) -> Gaps] }

Forecasts(Powers, Gaps) == UNION { ForecastsOfLen(n, Powers, Gaps) : n \in 0..MaxLen }

ArgSpace(F, NOW, V, SOC, RSV, IE, CE, GKW, GH, HH, ALLOW) ==
    [ forecast_df : F, now_dt : NOW, batt_ah : {250}, batt_v : V,
      batt_soc_frac : SOC, reserve_soc_frac : RSV,
      inverter_eff : IE, charger_eff : CE,
      geyser_kw : GKW, geyser_h : GH, household_load_kw : HH,
      allow_geyser_during_loadshedding : ALLOW ]

PowerVals == {0, 2, 6}
GapVals == {1, 2}

\* inputs inside the documented domain: strictly increasing timestamps,
\* non-negative powers, positive duration, efficiencies in (0,1],
\* state of charge in [0,1], reserve in [0,1).  forecast_df carries the
\* columns the function reads, Time and Power_kW.  (The script's own call,
\* lines 348-361, passes df, to which line 150 never adds Power_kW: there
\* line 252 raises KeyError as soon as a future sample exists.  The model is
\* of the function, called with a frame that has both columns.)
ValidArgs ==
    ArgSpace(Forecasts(PowerVals, GapVals), {0, 3600}, {24}, {0, 50, 100}, {0, 50},
             {50, 100}, {50, 100}, {2}, {1, 2, 3}, {0, 2}, BOOLEAN)

\* inputs that break exactly one documented constraint, each with at least one
\* future sample so that the scheduler gets to use the offending value
InvalidArgs ==
    LET F  == Forecasts({0, 6}, {1}) \ {<<>>}
        FD == { f \in Forecasts({0, 6}, {0, 1}) :
                  \E k \in 1..(Len(f) - 1) : f[k + 1].Time <= f[k].Time }
        A(FF, IE, CE, GKW, GH, HH) ==
            ArgSpace(FF, {0}, {24}, {50, 100}, {0, 50}, IE, CE, GKW, GH, HH, {TRUE})
    IN       A(F,  {0, 200}, {100},    {2},  {1, 2},  {0, 2})   \* inverter_eff outside (0,1]
       \cup  A(F,  {100},    {0, 200}, {2},  {1, 2},  {0, 2})   \* charger_eff outside (0,1]
       \cup  A(F,  {100},    {100},    {-2}, {1, 2},  {0, 2})   \* negative geyser power
       \cup  A(F,  {100},    {100},    {2},  {0, -1}, {0, 2})   \* zero / negative duration
       \cup  A(F,  {100},    {100},    {2},  {1, 2},  {-2})     \* negative household power
       \cup  A(FD, {100},    {100},    {2},  {1, 2},  {0, 2})   \* non-increasing timestamps

-----------------------------------------------------------------------------
(* find_next_run_with_loads: derived quantities (lines 216-227) *)

battery_capacity_kwh(ah, voltage) == (ah * voltage) \div 1000

batt_kwh == battery_capacity_kwh(args.batt_ah, args.batt_v)
current_kwh == TimesFrac(batt_kwh, args.batt_soc_frac)
reserve_kwh == TimesFrac(batt_kwh, args.reserve_soc_frac)
usable_min_kwh == reserve_kwh

\* forecast_df[forecast_df["Time"] >= now_dt].reset_index(drop=True)
FutureOf(df, now) ==
    LET Keep(row) == row.Time >= now IN SelectSeq(df, Keep)

\* hours between two timestamps: total_seconds() / 3600.0
HoursBetween(t1, t2) == (t2 - t1) \div 3600

\* lines 242-250: duration of outer interval k
OuterDeltaHours(fut, k) ==
    LET d == IF k < Len(fut) THEN HoursBetween(fut[k].Time, fut[k + 1].Time)
             ELSE IF k > 1 THEN HoursBetween(fut[k - 1].Time, fut[k].Time)
             ELSE 1
    IN  IF d <= 0 THEN 1 ELSE d

\* LedgerStep with the reserve left out of the discharge limit
LedgerStepNoReserve(b, prod_kwh, load_kwh) ==
    IF prod_kwh >= load_kwh
    THEN LET surplus == prod_kwh - load_kwh
             storeable == TimesFrac(surplus, args.charger_eff)
             remaining_cap == Max(0, batt_kwh - b)
             stored == Min(storeable, remaining_cap)
         IN  [battery_kwh |-> b + stored, grid_drawn |-> 0, net_to_batt |-> stored]
    ELSE LET deficit == load_kwh - prod_kwh
             required_from_batt_for_load == OverFrac(deficit, args.inverter_eff)
             available_for_discharge == Max(0, b)
             discharged == Min(required_from_batt_for_load, available_for_discharge)
         IN  [battery_kwh |-> b - discharged,
              grid_drawn |-> required_from_batt_for_load - discharged,
              net_to_batt |-> -discharged]

\* lines 258-278: one step of the energy ledger from battery energy b
LedgerStep(b, prod_kwh, load_kwh) ==
    IF prod_kwh >= load_kwh
    THEN LET surplus == prod_kwh - load_kwh
             storeable == TimesFrac(surplus, args.charger_eff)
             remaining_cap == Max(0, batt_kwh - b)
             stored == Min(storeable, remaining_cap)
         IN  [battery_kwh |-> b + stored, grid_drawn |-> 0, net_to_batt |-> stored]
    ELSE LET deficit == load_kwh - prod_kwh
             required_from_batt_for_load == OverFrac(deficit, args.inverter_eff)
             available_for_discharge == Max(0, b - usable_min_kwh)
             discharged == Min(required_from_batt_for_load, available_for_discharge)
         IN  [battery_kwh |-> b - discharged,
              grid_drawn |-> required_from_batt_for_load - discharged,
              net_to_batt |-> -discharged]

\* lines 252-256 and 258-278: the outer step at sample k from battery energy b
OuterStepAt(fut, k, b) ==
    LET dh == OuterDeltaHours(fut, k)
    IN  LedgerStep(b, fut[k].Power_kW * dh, args.household_load_kw * dh)

\* lines 280-287
TimelineEntry(fut, k, r) ==
    LET dh == OuterDeltaHours(fut, k)
    IN  [Time |-> fut[k].Time,
         prod_kwh |-> fut[k].Power_kW * dh,
         load_kwh |-> args.household_load_kw * dh,
         battery_kwh |-> r.battery_kwh,
         grid_drawn_kwh |-> r.grid_drawn,
         delta_hours |-> dh]

\* lines 302-307: duration of probe interval jj, dh being the outer delta_hours
ProbeStepHours(fut, jj, dh) ==
    IF jj < Len(fut)
    THEN LET s == HoursBetween(fut[jj].Time, fut[jj + 1].Time)
         IN  IF s <= 0 THEN 1 ELSE s
    ELSE dh

\* ProbeBody storing the whole storeable surplus, capacity not consulted
ProbeBodyNoCap(fut, jj, dh, snap, hrs) ==
    LET step_hours == ProbeStepHours(fut, jj, dh)
        use_hours == Min(step_hours, hrs)
        prod_kwh_j == fut[jj].Power_kW * use_hours
        load_kwh_j == args.household_load_kw * use_hours
        geyser_out_kwh == args.geyser_kw * use_hours
        total_out_kwh == load_kwh_j + geyser_out_kwh
    IN  IF prod_kwh_j >= total_out_kwh
        THEN LET surplus_after == prod_kwh_j - total_out_kwh
                 storeable == TimesFrac(surplus_after, args.charger_eff)
             IN  [abort |-> FALSE, batt_snapshot |-> snap + storeable,
                  use_hours |-> use_hours, required_from_batt |-> 0]
        ELSE LET deficit_j == total_out_kwh - prod_kwh_j
                 required_from_batt == OverFrac(deficit_j, args.inverter_eff)
             IN  IF snap - required_from_batt < usable_min_kwh
                 THEN [abort |-> TRUE, batt_snapshot |-> snap,
                       use_hours |-> use_hours, required_from_batt |-> required_from_batt]
                 ELSE [abort |-> FALSE, batt_snapshot |-> snap - required_from_batt,
                       use_hours |-> use_hours, required_from_batt |-> required_from_batt]

\* lines 308-333: one iteration of the probe from snapshot energy snap
ProbeBody(fut, jj, dh, snap, hrs) ==
    LET step_hours == ProbeStepHours(fut, jj, dh)
        use_hours == Min(step_hours, hrs)
        prod_kwh_j == fut[jj].Power_kW * use_hours
        load_kwh_j == args.household_load_kw * use_hours
        geyser_out_kwh == args.geyser_kw * use_hours
        total_out_kwh == load_kwh_j + geyser_out_kwh
    IN  IF prod_kwh_j >= total_out_kwh
        THEN LET surplus_after == prod_kwh_j - total_out_kwh
                 storeable == TimesFrac(surplus_after, args.charger_eff)
                 remaining_cap == Max(0, batt_kwh - snap)
                 stored == Min(storeable, remaining_cap)
             IN  [abort |-> FALSE, batt_snapshot |-> snap + stored,
                  use_hours |-> use_hours, required_from_batt |-> 0]
        ELSE LET deficit_j == total_out_kwh - prod_kwh_j
                 required_from_batt == OverFrac(deficit_j, args.inverter_eff)
             IN  IF snap - required_from_batt < usable_min_kwh
                 THEN [abort |-> TRUE, batt_snapshot |-> snap,
                       use_hours |-> use_hours, required_from_batt |-> required_from_batt]
                 ELSE [abort |-> FALSE, batt_snapshot |-> snap - required_from_batt,
                       use_hours |-> use_hours, required_from_batt |-> required_from_batt]

\* line 300: the probe's loop condition
ProbeLoopCond == hours_remaining > 0 /\ j <= Len(future)

\* the details dicts of the three returns (lines 232, 339, 345)
NoFutureReason == "No future forecast available."
InsufficientReason ==
    "Insufficient forecasted solar+battery to run geyser without grid in forecast window."

NotReturned ==
    [start |-> <<>>, keys |-> {}, reason |-> "", timeline |-> <<>>, battery_kwh_at_start |-> 0]

-----------------------------------------------------------------------------
(* find_next_run_with_loads: the state machine *)

\* the sidebar's default sizing inputs (lines 103-123), held while the
\* scheduler runs
DefaultRecArgs ==
    [ baseload_kw |-> [n |-> 1, d |-> 2], extra_kw |-> [n |-> 7, d |-> 2],
      duration_h |-> [n |-> 6, d |-> 1], inverter_eff |-> [n |-> 9, d |-> 10],
      voltage |-> [n |-> 48, d |-> 1], reserve_soc |-> [n |-> 1, d |-> 10],
      safety_margin |-> [n |-> 1, d |-> 5] ]

SchedLocalsInit ==
    /\ pc = "start"
    /\ future = <<>>
    /\ timeline = <<>>
    /\ battery_kwh = 0
    /\ net_to_batt = 0
    /\ i = 0
    /\ delta_hours = 0
    /\ batt_snapshot = 0
    /\ hours_remaining = 0
    /\ j = 0
    /\ can_run = TRUE
    /\ ret = NotReturned
    /\ probe_steps = <<>>
    /\ probe_log = <<>>

Init ==
    /\ args \in ValidArgs
    /\ SchedLocalsInit
    /\ rec_args = DefaultRecArgs
    /\ rec = <<>>

InitAny ==
    /\ args \in InvalidArgs
    /\ SchedLocalsInit
    /\ rec_args = DefaultRecArgs
    /\ rec = <<>>

\* lines 216-236: the division of line 227 raises ZeroDivisionError when
\* inverter_eff is 0; otherwise filter the forecast and return at once when
\* nothing lies in the future
Start ==
    /\ pc = "start"
    /\ IF args.inverter_eff = 0
       THEN /\ pc' = "raised"
            /\ UNCHANGED <<future, timeline, battery_kwh, i, ret>>
       ELSE LET fut == FutureOf(args.forecast_df, args.now_dt)
            IN  /\ future' = fut
                /\ IF fut = <<>>
                   THEN /\ pc' = "done"
                        /\ ret' = [NotReturned EXCEPT !.keys = {"reason"},
                                                      !.reason = NoFutureReason]
                        /\ UNCHANGED <<timeline, battery_kwh, i>>
                   ELSE /\ pc' = "outer"
                        /\ timeline' = <<>>
                        /\ battery_kwh' = current_kwh
                        /\ i' = 1
                        /\ ret' = ret
    /\ UNCHANGED <<args, net_to_batt, delta_hours, batt_snapshot, hours_remaining, j,
                   can_run, probe_steps, probe_log, rec_vars>>

\* OuterStep entering the probe whatever allow_geyser_during_loadshedding says
OuterStepIgnoresFlag ==
    /\ pc = "outer"
    /\ i <= Len(future)
    /\ LET r == OuterStepAt(future, i, battery_kwh)
       IN  /\ delta_hours' = OuterDeltaHours(future, i)
           /\ battery_kwh' = r.battery_kwh
           /\ net_to_batt' = r.net_to_batt
           /\ timeline' = Append(timeline, TimelineEntry(future, i, r))
           /\ batt_snapshot' = r.battery_kwh
           /\ hours_remaining' = args.geyser_h
           /\ j' = i
           /\ can_run' = TRUE
           /\ probe_steps' = <<>>
           /\ pc' = "probe"
           /\ i' = i
    /\ UNCHANGED <<args, future, ret, probe_log, rec_vars>>

\* lines 239-298 (and 340-342): one iteration of the for loop up to the start
\* of the probe
OuterStep ==
    /\ pc = "outer"
    /\ i <= Len(future)
    /\ LET r == OuterStepAt(future, i, battery_kwh)
       IN  /\ delta_hours' = OuterDeltaHours(future, i)
           /\ battery_kwh' = r.battery_kwh
           /\ net_to_batt' = r.net_to_batt
           /\ timeline' = Append(timeline, TimelineEntry(future, i, r))
           /\ IF args.allow_geyser_during_loadshedding
              THEN /\ batt_snapshot' = r.battery_kwh
                   /\ hours_remaining' = args.geyser_h
                   /\ j' = i
                   /\ can_run' = TRUE
                   /\ probe_steps' = <<>>
                   /\ pc' = "probe"
                   /\ i' = i
              ELSE /\ pc' = "outer"
                   /\ i' = i + 1
                   /\ UNCHANGED <<batt_snapshot, hours_remaining, j, can_run, probe_steps>>
    /\ UNCHANGED <<args, future, ret, probe_log, rec_vars>>

\* ProbeStep working on battery_kwh itself instead of a private copy
ProbeStepAliased ==
    /\ pc = "probe"
    /\ ProbeLoopCond
    /\ LET r == ProbeBody(future, j, delta_hours, batt_snapshot, hours_remaining)
       IN  /\ probe_steps' = Append(probe_steps,
                                    [j |-> j, before |-> batt_snapshot,
                                     after |-> r.batt_snapshot,
                                     use_hours |-> r.use_hours,
                                     required_from_batt |-> r.required_from_batt,
                                     abort |-> r.abort])
           /\ IF r.abort
              THEN /\ can_run' = FALSE
                   /\ pc' = "after"
                   /\ UNCHANGED <<batt_snapshot, battery_kwh, hours_remaining, j>>
              ELSE /\ batt_snapshot' = r.batt_snapshot
                   /\ battery_kwh' = r.batt_snapshot
                   /\ hours_remaining' = hours_remaining - r.use_hours
                   /\ j' = j + 1
                   /\ UNCHANGED <<can_run, pc>>
    /\ UNCHANGED <<args, future, timeline, net_to_batt, i, delta_hours,
                   ret, probe_log, rec_vars>>

\* lines 300-335: one iteration of the probe's while loop
ProbeStep ==
    /\ pc = "probe"
    /\ ProbeLoopCond
    /\ LET r == ProbeBody(future, j, delta_hours, batt_snapshot, hours_remaining)
       IN  /\ probe_steps' = Append(probe_steps,
                                    [j |-> j, before |-> batt_snapshot,
                                     after |-> r.batt_snapshot,
                                     use_hours |-> r.use_hours,
                                     required_from_batt |-> r.required_from_batt,
                                     abort |-> r.abort])
           /\ IF r.abort
              THEN /\ can_run' = FALSE
                   /\ pc' = "after"
                   /\ UNCHANGED <<batt_snapshot, hours_remaining, j>>
              ELSE /\ batt_snapshot' = r.batt_snapshot
                   /\ hours_remaining' = hours_remaining - r.use_hours
                   /\ j' = j + 1
                   /\ UNCHANGED <<can_run, pc>>
    /\ UNCHANGED <<args, future, timeline, battery_kwh, net_to_batt, i, delta_hours,
                   ret, probe_log, rec_vars>>

\* ProbeExit with the verdict tested the wrong way round
ProbeExitInverted ==
    /\ pc \in {"probe", "after"}
    /\ pc = "probe" => ~ProbeLoopCond
    /\ probe_log' = Append(probe_log, can_run)
    /\ IF ~can_run
       THEN /\ ret' = [NotReturned EXCEPT
                          !.start = <<future[i].Time>>,
                          !.keys = {"timeline", "battery_kwh_at_start", "batt_kwh_total"},
                          !.timeline = timeline,
                          !.battery_kwh_at_start = battery_kwh]
            /\ pc' = "done"
            /\ i' = i
       ELSE /\ pc' = "outer"
            /\ i' = i + 1
            /\ ret' = ret
    /\ UNCHANGED <<args, future, timeline, battery_kwh, net_to_batt, delta_hours,
                   batt_snapshot, hours_remaining, j, can_run, probe_steps, rec_vars>>

\* lines 337-339: the while loop has ended (condition false, or break)
ProbeExit ==
    /\ pc \in {"probe", "after"}
    /\ pc = "probe" => ~ProbeLoopCond
    /\ probe_log' = Append(probe_log, can_run)
    /\ IF can_run
       THEN /\ ret' = [NotReturned EXCEPT
                          !.start = <<future[i].Time>>,
                          !.keys = {"timeline", "battery_kwh_at_start", "batt_kwh_total"},
                          !.timeline = timeline,
                          !.battery_kwh_at_start = battery_kwh]
            /\ pc' = "done"
            /\ i' = i
       ELSE /\ pc' = "outer"
            /\ i' = i + 1
            /\ ret' = ret
    /\ UNCHANGED <<args, future, timeline, battery_kwh, net_to_batt, delta_hours,
                   batt_snapshot, hours_remaining, j, can_run, probe_steps, rec_vars>>

\* Finish returning the details of the no-forecast return
FinishNoFutureDetails ==
    /\ pc = "outer"
    /\ i > Len(future)
    /\ ret' = [NotReturned EXCEPT !.keys = {"reason"}, !.reason = NoFutureReason]
    /\ pc' = "done"
    /\ UNCHANGED <<args, future, timeline, battery_kwh, net_to_batt, i, delta_hours,
                   batt_snapshot, hours_remaining, j, can_run, probe_steps, probe_log,
                   rec_vars>>

\* lines 344-345: the for loop is exhausted
Finish ==
    /\ pc = "outer"
    /\ i > Len(future)
    /\ ret' = [NotReturned EXCEPT !.keys = {"reason", "timeline", "battery_kwh_total"},
                                  !.reason = InsufficientReason,
                                  !.timeline = timeline]
    /\ pc' = "done"
    /\ UNCHANGED <<args, future, timeline, battery_kwh, net_to_batt, i, delta_hours,
                   batt_snapshot, hours_remaining, j, can_run, probe_steps, probe_log,
                   rec_vars>>

Next == Start \/ OuterStep \/ ProbeStep \/ ProbeExit \/ Finish

Spec == Init /\ [][Next]_vars

SpecAny == InitAny /\ [][Next]_vars

-----------------------------------------------------------------------------
(* recommend_battery (lines 165-195) *)

\* line 168-169
ah_from_kwh(kwh, voltage) == RDiv(RMul(kwh, Rat(1000, 1)), voltage)

\* recommend_battery without the 0.01 floor on the usable fraction
recommend_battery_NoFloor(baseload_kw, extra_kw, duration_h, inverter_eff, voltage, reserve_soc, safety_margin) ==
    LET total_load_kw == RAdd(baseload_kw, extra_kw)
        required_out_kwh == RMul(total_load_kw, duration_h)
        required_0 == RDiv(required_out_kwh, inverter_eff)
        required_from_battery_kwh == RMul(required_0, RAdd(Rat(1, 1), safety_margin))
        usable_fraction == RSub(Rat(1, 1), reserve_soc)
        recommended_kwh_total == RDiv(required_from_battery_kwh, usable_fraction)
        recommended_ah == ah_from_kwh(recommended_kwh_total, voltage)
    IN  [required_from_battery_kwh |-> required_from_battery_kwh,
         recommended_kwh_total |-> recommended_kwh_total,
         recommended_ah |-> recommended_ah,
         usable_fraction |-> usable_fraction,
         total_load_kw |-> total_load_kw]

\* recommend_battery with the safety margin taken off instead of added
recommend_battery_MarginOff(baseload_kw, extra_kw, duration_h, inverter_eff, voltage, reserve_soc, safety_margin) ==
    LET total_load_kw == RAdd(baseload_kw, extra_kw)
        required_out_kwh == RMul(total_load_kw, duration_h)
        required_0 == RDiv(required_out_kwh, inverter_eff)
        required_from_battery_kwh == RMul(required_0, RSub(Rat(1, 1), safety_margin))
        usable_fraction == RMax(Rat(1, 100), RSub(Rat(1, 1), reserve_soc))
        recommended_kwh_total == RDiv(required_from_battery_kwh, usable_fraction)
        recommended_ah == ah_from_kwh(recommended_kwh_total, voltage)
    IN  [required_from_battery_kwh |-> required_from_battery_kwh,
         recommended_kwh_total |-> recommended_kwh_total,
         recommended_ah |-> recommended_ah,
         usable_fraction |-> usable_fraction,
         total_load_kw |-> total_load_kw]

\* lines 172-195
recommend_battery(baseload_kw, extra_kw, duration_h, inverter_eff, voltage, reserve_soc, safety_margin) ==
    LET total_load_kw == RAdd(baseload_kw, extra_kw)
        required_out_kwh == RMul(total_load_kw, duration_h)
        required_0 == RDiv(required_out_kwh, inverter_eff)
        required_from_battery_kwh == RMul(required_0, RAdd(Rat(1, 1), safety_margin))
        usable_fraction == RMax(Rat(1, 100), RSub(Rat(1, 1), reserve_soc))
        recommended_kwh_total == RDiv(required_from_battery_kwh, usable_fraction)
        recommended_ah == ah_from_kwh(recommended_kwh_total, voltage)
    IN  [required_from_battery_kwh |-> required_from_battery_kwh,
         recommended_kwh_total |-> recommended_kwh_total,
         recommended_ah |-> recommended_ah,
         usable_fraction |-> usable_fraction,
         total_load_kw |-> total_load_kw]

RecommendOf(a) ==
    recommend_battery(a.baseload_kw, a.extra_kw, a.duration_h, a.inverter_eff,
                      a.voltage, a.reserve_soc, a.safety_margin)

\* inputs inside the documented domain: loads >= 0, duration > 0,
\* inverter_eff in (0,1], reserve in [0,1), margin >= 0, voltage > 0
RecArgs ==
    [ baseload_kw : {Rat(0, 1), Rat(1, 2), Rat(1, 1)},
      extra_kw : {Rat(0, 1), Rat(3, 1)},
      duration_h : {Rat(1, 1), Rat(6, 1)},
      inverter_eff : {Rat(1, 2), Rat(9, 10), Rat(1, 1)},
      voltage : {Rat(12, 1), Rat(48, 1)},
      reserve_soc : {Rat(0, 1), Rat(1, 10), Rat(1, 2), Rat(199, 200)},
      safety_margin : {Rat(0, 1), Rat(1, 5), Rat(1, 1)} ]

\* the sidebar's default scheduler inputs, held while the sizing helper runs
DefaultArgs ==
    [ forecast_df |-> <<>>, now_dt |-> 0, batt_ah |-> 200, batt_v |-> 48,
      batt_soc_frac |-> 50, reserve_soc_frac |-> 10,
      inverter_eff |-> 90, charger_eff |-> 95,
      geyser_kw |-> 3, geyser_h |-> 1, household_load_kw |-> 1,
      allow_geyser_during_loadshedding |-> TRUE ]

InitRec ==
    /\ args = DefaultArgs
    /\ SchedLocalsInit
    /\ rec_args \in RecArgs
    /\ rec = <<>>

\* lines 371-379: the call
RecommendBattery ==
    /\ rec = <<>>
    /\ rec' = <<RecommendOf(rec_args)>>
    /\ UNCHANGED <<rec_args, sched_vars>>

NextRec == RecommendBattery

SpecRec == InitRec /\ [][NextRec]_vars

-----------------------------------------------------------------------------
(* The scheduler as a pure function, for comparison with the state machine *)

\* lines 236-278 iterated: the ledger energy after outer step k, no probe run
RECURSIVE LedgerAfter(_, _)
LedgerAfter(fut, k) ==
    IF k = 0 THEN current_kwh
    ELSE OuterStepAt(fut, k, LedgerAfter(fut, k - 1)).battery_kwh

\* lines 295-337: the verdict (can_run) of a probe entered with these values
RECURSIVE ProbeRun(_, _, _, _, _)
ProbeRun(fut, jj, dh, snap, hrs) ==
    IF ~(hrs > 0 /\ jj <= Len(fut)) THEN TRUE
    ELSE LET r == ProbeBody(fut, jj, dh, snap, hrs)
         IN  IF r.abort THEN FALSE
             ELSE ProbeRun(fut, jj + 1, dh, r.batt_snapshot, hrs - r.use_hours)

\* the probe at candidate k, entered from the ledger state reached at k
FeasibleAt(fut, k) ==
    ProbeRun(fut, k, OuterDeltaHours(fut, k), LedgerAfter(fut, k), args.geyser_h)

Returned == pc = "done"
ReturnedStart == pc = "done" /\ ret.start # <<>>
ReturnedAbsent == pc = "done" /\ ret.start = <<>>

-----------------------------------------------------------------------------
(* Claims *)

\* C1: whenever a start time is returned, the accepting probe simulated
\* exactly geyser_h hours of appliance runtime (hours_remaining reached 0);
\* a candidate whose remaining samples cover less than geyser_h hours is
\* never returned.
C1_ProbeCoversFullDuration == ReturnedStart => hours_remaining = 0

\* C2: no discharge the scheduler authorises breaches the reserve floor.  An
\* outer step that discharged (net_to_batt < 0) leaves battery_kwh at or above
\* the reserve; in a probe that ends in success every step that drew on the
\* battery leaves the snapshot at or above the reserve and needs no more than
\* the battery held above the reserve (no grid draw).
C2_ReserveRespected ==
    /\ net_to_batt < 0 => battery_kwh >= reserve_kwh
    /\ ReturnedStart =>
         \A k \in 1..Len(probe_steps) :
            LET s == probe_steps[k]
            IN  s.required_from_batt > 0 =>
                  /\ s.after >= reserve_kwh
                  /\ s.required_from_batt <= Max(0, s.before - reserve_kwh)

\* C2 witness: a start was returned after the outer step at the start sample
\* discharged the battery and the probe drew on the battery as well
C2_Witness ==
    /\ ReturnedStart
    /\ net_to_batt < 0
    /\ \E k \in 1..Len(probe_steps) : probe_steps[k].required_from_batt > 0

\* C3: conservation.  After every outer step and every probe step the
\* simulated battery energy lies in [0, capacity].
C3_Conservation ==
    /\ 0 <= battery_kwh /\ battery_kwh <= batt_kwh
    /\ 0 <= batt_snapshot /\ batt_snapshot <= batt_kwh
    /\ \A k \in 1..Len(timeline) :
          0 <= timeline[k].battery_kwh /\ timeline[k].battery_kwh <= batt_kwh
    /\ \A k \in 1..Len(probe_steps) :
          0 <= probe_steps[k].after /\ probe_steps[k].after <= batt_kwh

\* C3 witness: both clamps acted.  The outer step stored less than the
\* storeable surplus because the battery became full, and a probe step then
\* drew the snapshot down
C3_Witness ==
    /\ pc = "probe"
    /\ Len(timeline) >= 1
    /\ battery_kwh = batt_kwh
    /\ net_to_batt > 0
    /\ LET e == timeline[Len(timeline)]
       IN  net_to_batt < TimesFrac(e.prod_kwh - e.load_kwh, args.charger_eff)
    /\ Len(probe_steps) >= 1
    /\ batt_snapshot < battery_kwh

\* C4: whenever a start time is returned, every timeline entry from the first
\* future sample up to and including the start sample has grid_drawn_kwh = 0.
C4_NoGridBeforeStart ==
    ReturnedStart =>
        \A k \in 1..Len(ret.timeline) : ret.timeline[k].grid_drawn_kwh = 0

\* C5: the returned start is the earliest feasible one.  If the timestamp of
\* future sample k is returned then the probe at every earlier sample, each
\* from the ledger state reached there, fails; if some sample's probe
\* succeeds the function does not return absent.
C5_EarliestFeasible ==
    (Returned /\ args.allow_geyser_during_loadshedding) =>
        LET Feasible == { k \in 1..Len(future) : FeasibleAt(future, k) }
        IN  /\ \A k \in 1..Len(probe_log) : probe_log[k] = FeasibleAt(future, k)
            /\ IF Feasible = {}
               THEN ret.start = <<>>
               ELSE \E k \in Feasible :
                       /\ \A m \in Feasible : k <= m
                       /\ ret.start = <<future[k].Time>>
                       /\ Len(probe_log) = k

\* C5 witness: the second future sample was returned although the third is
\* feasible too
C5_Witness ==
    /\ ReturnedStart
    /\ Len(future) = 3
    /\ ret.start = <<future[2].Time>>
    /\ ~FeasibleAt(future, 1)
    /\ FeasibleAt(future, 3)

\* the documented constraints on the scheduler's inputs
InDomain(a) ==
    /\ a.geyser_kw >= 0
    /\ a.household_load_kw >= 0
    /\ a.geyser_h > 0
    /\ 0 < a.inverter_eff /\ a.inverter_eff <= 100
    /\ 0 < a.charger_eff /\ a.charger_eff <= 100
    /\ \A k \in 1..(Len(a.forecast_df) - 1) :
          a.forecast_df[k].Time < a.forecast_df[k + 1].Time

\* C6: an input that violates the stated constraints is rejected with an
\* error; it never produces a schedule decision (an ordinary return).
C6_InvalidInputRejected == Returned => InDomain(args)

\* C7: absence is an ordinary return value with a distinguishing reason.
\* With no sample at or after now the scheduler returns absent with the
\* no-forecast reason and no timeline, having simulated nothing; with future
\* samples but no successful probe it returns absent with a different reason
\* and the timeline of every future sample; neither case raises.
C7_AbsenceIsOrdinary ==
    /\ pc # "raised"
    /\ NoFutureReason # InsufficientReason
    /\ (Returned /\ FutureOf(args.forecast_df, args.now_dt) = <<>>) =>
          /\ ret.start = <<>>
          /\ ret.reason = NoFutureReason
          /\ ret.keys = {"reason"}
          /\ timeline = <<>> /\ probe_log = <<>>
    /\ (ReturnedAbsent /\ FutureOf(args.forecast_df, args.now_dt) # <<>>) =>
          /\ ret.reason = InsufficientReason
          /\ "timeline" \in ret.keys
          /\ Len(ret.timeline) = Len(FutureOf(args.forecast_df, args.now_dt))
          /\ \A k \in 1..Len(ret.timeline) :
                ret.timeline[k].Time = FutureOf(args.forecast_df, args.now_dt)[k].Time

\* C7 witness: three future samples, every probe ran and failed, absent was
\* returned with the full timeline
C7_Witness ==
    /\ ReturnedAbsent
    /\ Len(future) = 3
    /\ Len(probe_log) = 3
    /\ Len(ret.timeline) = 3

\* the value sets of one recommend_battery input
RecVals(f) == { a[f] : a \in RecArgs }

\* the closed form claimed for required_from_battery_kwh
ClaimedRequired(a) ==
    RMul(RDiv(RMul(RAdd(a.baseload_kw, a.extra_kw), a.duration_h), a.inverter_eff),
         RAdd(Rat(1, 1), a.safety_margin))

\* C8 as claimed: for every input in the domain required_from_battery_kwh =
\* (baseload_kw + extra_kw) * duration_h / inverter_eff * (1 + safety_margin),
\* recommended_kwh_total = required_from_battery_kwh / (1 - reserve_soc) and
\* recommended_ah = recommended_kwh_total * 1000 / voltage.
C8_ClaimedFormulas ==
    rec # <<>> =>
        /\ rec[1].required_from_battery_kwh = ClaimedRequired(rec_args)
        /\ rec[1].recommended_kwh_total =
              RDiv(ClaimedRequired(rec_args), RSub(Rat(1, 1), rec_args.reserve_soc))
        /\ rec[1].recommended_ah =
              RDiv(RMul(rec[1].recommended_kwh_total, Rat(1000, 1)), rec_args.voltage)

\* C8 as amended: the same, with recommended_kwh_total =
\* required_from_battery_kwh / max(0.01, 1 - reserve_soc); this is the claimed
\* quotient by (1 - reserve_soc) whenever reserve_soc <= 0.99.
C8_FormulasWithFloor ==
    rec # <<>> =>
        /\ rec[1].required_from_battery_kwh = ClaimedRequired(rec_args)
        /\ rec[1].recommended_kwh_total =
              RDiv(ClaimedRequired(rec_args),
                   RMax(Rat(1, 100), RSub(Rat(1, 1), rec_args.reserve_soc)))
        /\ RLeq(rec_args.reserve_soc, Rat(99, 100)) =>
              rec[1].recommended_kwh_total =
                 RDiv(ClaimedRequired(rec_args), RSub(Rat(1, 1), rec_args.reserve_soc))
        /\ rec[1].recommended_ah =
              RDiv(RMul(rec[1].recommended_kwh_total, Rat(1000, 1)), rec_args.voltage)

\* C8 witness: a recommendation for a reserve above 0.99 and a positive load,
\* where the floor decides the total
C8_Witness ==
    /\ rec # <<>>
    /\ ~RLeq(rec_args.reserve_soc, Rat(99, 100))
    /\ rec[1].required_from_battery_kwh.n > 0
    /\ rec[1].recommended_kwh_total = RMul(rec[1].required_from_battery_kwh, Rat(100, 1))

\* every output of x is at most the same output of y
RecLeq(x, y) ==
    /\ RLeq(x.required_from_battery_kwh, y.required_from_battery_kwh)
    /\ RLeq(x.recommended_kwh_total, y.recommended_kwh_total)
    /\ RLeq(x.recommended_ah, y.recommended_ah)

\* the recommendations for rec_args with input f raised to v
RaisedRecs(f) ==
    { RecommendOf([rec_args EXCEPT ![f] = v]) :
        v \in { w \in RecVals(f) : RLeq(rec_args[f], w) } }

\* C9 as claimed: holding the other inputs fixed, increasing any one of
\* baseload_kw, extra_kw, duration_h, safety_margin, inverter_eff or
\* reserve_soc never decreases any of the three outputs.
C9_MonotonicAllInputs ==
    rec # <<>> =>
        \A f \in {"baseload_kw", "extra_kw", "duration_h", "safety_margin",
                  "inverter_eff", "reserve_soc"} :
            \A r \in RaisedRecs(f) : RecLeq(rec[1], r)

\* C9 as amended: increasing any one of baseload_kw, extra_kw, duration_h,
\* safety_margin or reserve_soc never decreases any of the three outputs;
\* increasing inverter_eff never increases any of them.
C9_MonotonicButInverterEff ==
    rec # <<>> =>
        /\ \A f \in {"baseload_kw", "extra_kw", "duration_h", "safety_margin",
                     "reserve_soc"} :
              \A r \in RaisedRecs(f) : RecLeq(rec[1], r)
        /\ \A r \in RaisedRecs("inverter_eff") : RecLeq(r, rec[1])

\* C9 witness: a recommendation that a longer duration strictly raises and a
\* better inverter strictly lowers
C9_Witness ==
    /\ rec # <<>>
    /\ \E r \in RaisedRecs("duration_h") : ~RecLeq(r, rec[1])
    /\ \E r \in RaisedRecs("inverter_eff") : ~RecLeq(rec[1], r)

\* a step taken inside a probe, or ending one, keeps the outer state
ProbeFrame ==
    pc \in {"probe", "after"} =>
        /\ battery_kwh' = battery_kwh
        /\ timeline' = timeline
        /\ i' = (IF pc' = "outer" THEN i + 1 ELSE i)

\* C10: a probe leaves the outer simulation untouched.  While a probe runs,
\* and when it ends, battery_kwh and the timeline are what they were before
\* it; the scan index moves only by the for loop's own advance after a failed
\* probe; so the ledger state at every candidate is the one reached with no
\* probe run at all.
C10_ProbeLeavesOuterUntouched ==
    /\ [](\A k \in 1..Len(timeline) :
             /\ timeline[k].battery_kwh = LedgerAfter(future, k)
             /\ timeline[k].Time = future[k].Time)
    /\ [](pc \in {"probe", "after"} =>
             /\ Len(timeline) = i
             /\ battery_kwh = LedgerAfter(future, i))
    /\ [][ProbeFrame]_vars

\* C10 witness: a probe that changed its own snapshot over two steps and then
\* aborted, the outer energy being what the ledger alone gives
C10_Witness ==
    /\ pc = "after"
    /\ Len(probe_steps) >= 2
    /\ batt_snapshot # battery_kwh
    /\ battery_kwh = LedgerAfter(future, i)

\* the run of the appliance from sample k for geyser_h hours, household load
\* included, started from the energy the ledger held at the beginning of
\* interval k (before that interval's production and load were applied):
\* does it stay at or above the reserve?  A forecast that ends before the
\* duration is used up is not held against the start here.
SustainableFromSlotStart(fut, k) ==
    ProbeRun(fut, k, OuterDeltaHours(fut, k), LedgerAfter(fut, k - 1), args.geyser_h)

\* C11: a returned start is sustainable from the energy actually held at the
\* start instant.  Whenever the timestamp of future sample i is returned,
\* serving household load plus geyser from t_i for the load duration,
\* beginning from the ledger energy at the beginning of interval i, keeps the
\* battery at or above the reserve: interval i's production is not counted
\* twice.  Stated for the returns whose probe covered the whole duration, so
\* that a forecast cut short plays no part.
C11_SustainableFromStartEnergy ==
    (ReturnedStart /\ hours_remaining = 0) => SustainableFromSlotStart(future, i)

\* C12: with allow_geyser_during_loadshedding false no start time is ever
\* returned.  No probe is run; with at least one future sample the
\* household-only ledger is run over every future sample and absent is
\* returned with the insufficient-solar+battery reason, even when a start
\* with the flag true would be feasible at the first sample.
C12_FlagOffNeverSchedules ==
    ~args.allow_geyser_during_loadshedding =>
        /\ pc \notin {"probe", "after"}
        /\ probe_log = <<>>
        /\ ret.start = <<>>
        /\ (Returned /\ future # <<>>) =>
              /\ ret.reason = InsufficientReason
              /\ "timeline" \in ret.keys
              /\ Len(ret.timeline) = Len(future)
              /\ \A k \in 1..Len(future) :
                    /\ ret.timeline[k].Time = future[k].Time
                    /\ ret.timeline[k].battery_kwh = LedgerAfter(future, k)
                    /\ ret.timeline[k].load_kwh =
                          args.household_load_kw * ret.timeline[k].delta_hours

\* C12 witness: the flag is off, three future samples were simulated and absent
\* returned, although the probe at the first sample would succeed
C12_Witness ==
    /\ ~args.allow_geyser_during_loadshedding
    /\ ReturnedAbsent
    /\ Len(future) = 3
    /\ ret.reason = InsufficientReason
    /\ FeasibleAt(future, 1)

====
